---------------------------- MODULE Spec2Model ----------------------------
(***************************************************************************)
(* State-machine models of the notebooks of the AppStat2024 course corpus. *)
(* Every notebook is an independent script, so each one has its own        *)
(* specification (SpecStopwatch, SpecAcceptReject, SpecProfile,            *)
(* SpecFisher, SpecCompanySize, SpecHistFits, SpecEhrenfest,               *)
(* SpecLinearFit) over its own group of variables; the variables of the    *)
(* other notebooks stay at their idle values.  SpecOutputFiles runs the    *)
(* notebooks whose file output is modelled, SpecAcceptRejectFair is the    *)
(* accept/reject sampler under fair random draws.                          *)
(***************************************************************************)
EXTENDS Integers, Sequences, FiniteSets

VARIABLES
    pc,          \* position of the running script
    \* --- Project/StopwatchTimer/stopwatch.ipynb
    files,       \* names of the files that exist in the current directory
    name,        \* the script's variable name
    newname,     \* the script's variable newname
    n,           \* the script's variable n (prompts used up)
    good_name,   \* the script's variable good_name: 0 (False) or 1
    clock,       \* what the latest call of time() returned, in ticks
    now,         \* the script's variable now
    laptime,     \* the script's variable laptime, in ticks
    counter,     \* the script's variable counter
    outfile,     \* the lines written to the output file
    prompt,      \* text of the lap prompt most recently shown
    nDone,       \* how many times "Done." was printed
    truncated,   \* history: open(name, "w") hit a file that existed
    presses,     \* history: Enter presses (empty inputs) at the lap prompt
    entered,     \* history: the input most recently typed, and at which prompt
    \* --- Week3/TransformationAcceptReject/TransformationAcceptReject_simple.ipynb
    i,           \* the for loop's index
    N_try,       \* the script's variable N_try
    x_test,      \* the script's variable x_test (in grid units)
    y_test,      \* the script's variable y_test (in grid units)
    x_accepted,  \* the script's array x_accepted
    stores,      \* history: every assignment to x_accepted[.]: index and pair
    rejects,     \* history: number of rejected pairs
    \* --- unnamed/part_000: profile_x
    px,          \* argument x of profile_x
    py,          \* argument y of profile_x
    bins,        \* argument bins: <<number of x-bins, number of y-bins>>
    xyrange,     \* argument xyrange: <<<<xlow, xhigh>>, <<ylow, yhigh>>>>
    profile,     \* what profile_x returned: x centres, means, spreads
    divZero,     \* a division by a zero count was carried out
    \* --- unnamed/part_000: Fisher discriminant
    mu,              \* mu[species][variable]: the class means of the data
    covmat_Vers,     \* the script's matrix covmat_Vers
    covmat_Virg,     \* the script's matrix covmat_Virg
    covmat_comb,     \* the script's matrix covmat_comb
    covmat_comb_inv, \* the script's matrix covmat_comb_inv, as fractions
    wf,              \* the script's vector wf
    \* --- Week3/CompanySize/CompanySize_empty.ipynb
    Frequency,       \* column "Frequency" of the data file read by read_csv
    Nworkers,        \* the script's array Nworkers
    Ncompanies,      \* the script's array Ncompanies
    eNcompanies,     \* the script's array eNcompanies
    \* --- plot files: savefig cells of the notebooks
    save_plots,      \* the accept/reject notebook's flag save_plots
    SaveFigures,     \* the calibration notebook's flag SaveFigures
    figs,            \* names of the figures defined in the running notebook
    savefigs,        \* history: every savefig call carried out: figure and file
    raised,          \* the exception that stopped the running cell, or "none"
    \* --- chi-square fits to histogram counts (three notebooks)
    count,           \* the counts np.histogram returned (yExp, data_Npos)
    sy,              \* sqrt of the counts, kept as the radicands
    fitted,          \* the arrays cost.LeastSquares was given: x, y, yerror
    \* --- unnamed/part_004: Ehrenfest ball game
    Place,           \* the script's array Place: 0 (blue) or 1 (red) per ball
    itest,           \* the outer loop's index
    iturns,          \* the inner loop's index
    Nballs,          \* the entry of Nballs written last
    H20,             \* the script's array H20
    M,               \* the script's matrix M, as fractions, rows and columns 0..NB
    \* --- Week1/ChiSquareTest/AnalyticalLinearFit_original.ipynb
    Npoints,         \* the script's parameter Npoints
    iexp,            \* the loop's index
    lx,              \* the script's array x
    ly,              \* the script's array y (in grid units)
    sum,             \* the script's variable sum
    sumx,            \* the script's variable sumx
    sumxx,           \* the script's variable sumxx
    sumy,            \* the script's variable sumy
    sumxy,           \* the script's variable sumxy
    Delta,           \* the script's variable Delta
    alpha0_calc,     \* the script's variable alpha0_calc, a fraction or "nan"
    alpha1_calc      \* the script's variable alpha1_calc, a fraction or "nan"

swVars == <<files, name, newname, n, good_name, clock, now, laptime, counter,
            outfile, prompt, nDone, truncated, presses, entered>>
arVars == <<i, N_try, x_test, y_test, x_accepted, stores, rejects>>
prVars == <<px, py, bins, xyrange, profile, divZero>>
fiVars == <<mu, covmat_Vers, covmat_Virg, covmat_comb, covmat_comb_inv, wf>>
coVars == <<Frequency, Nworkers, Ncompanies, eNcompanies>>
plVars == <<save_plots, SaveFigures, figs, savefigs, raised>>
hfVars == <<count, sy, fitted>>
ehVars == <<Place, itest, iturns, Nballs, H20, M>>
lfVars == <<Npoints, iexp, lx, ly, sum, sumx, sumxx, sumy, sumxy, Delta,
            alpha0_calc, alpha1_calc>>
vars == <<pc, swVars, arVars, prVars, fiVars, coVars, plVars, hfVars, ehVars, lfVars>>

(***************************************************************************)
(* Bounds of the model.                                                    *)
(***************************************************************************)
MaxLaps == 3      \* Enter presses explored at the lap prompt
MaxDt == 3        \* largest number of ticks between two inputs
Sub == 2          \* ticks per printed unit of 0.0001 s

(***************************************************************************)
(* Strings are sequences of one-character strings.                         *)
(***************************************************************************)
Letters == {"a", "b", "d", "e", "i", "m", "o", "p", "r", "t", "u", "x", "T", "Z"}

DotDat == <<".", "d", "a", "t">>

\* name = "timer_output.dat"
DefaultName == <<"t", "i", "m", "e", "r", "_", "o", "u", "t", "p", "u", "t",
                 ".", "d", "a", "t">>

\* What the user may type at a name prompt.
Names == { <<>>,
           DefaultName,
           <<"a", ".", "d", "a", "t">>,
           <<"1", ".", "d", "a", "t">>,
           <<"a", ".", "t", "x", "t">>,
           DotDat }

\* Names a file of the current directory may already have.
OnDisk == { DefaultName, <<"a", ".", "d", "a", "t">>, <<"1", ".", "d", "a", "t">> }

\* What the user may type at the lap prompt: Enter alone, or a key and Enter.
Keys == { <<>>, <<"x">>, <<" ">> }

\* str.isalpha() of a one-character string
isalpha(c) == c \in Letters

\* str.endswith(suffix)
endswith(s, suffix) ==
    /\ Len(s) >= Len(suffix)
    /\ SubSeq(s, Len(s) - Len(suffix) + 1, Len(s)) = suffix

\* os.path.isfile(name) in the current directory
isfile(s) == s \in files

\* bool as a number, as Python multiplies them
BoolInt(b) == IF b THEN 1 ELSE 0

\* mutant: the first-character test is dropped
GoodNameNoAlpha(s) ==
    IF Len(s) = 0 THEN 0 ELSE BoolInt(endswith(s, DotDat))

\* good_name as the first check computes it (script lines 57-60)
GoodName(s) ==
    IF Len(s) = 0
    THEN 0
    ELSE BoolInt(isalpha(s[1])) * BoolInt(endswith(s, DotDat))

\* "%4d" % c: the decimal digits of c, right-aligned in four columns
RECURSIVE Digits(_)
Digits(c) == IF c < 10 THEN <<c>> ELSE Append(Digits(c \div 10), c % 10)

Fmt4d(c) ==
    LET d == Digits(c)
    IN  [k \in 1..(IF Len(d) < 4 THEN 4 - Len(d) ELSE 0) |-> " "] \o d

\* "%10.4f" % t: t seconds rounded to four decimals; t is in ticks of
\* 1/Sub of 0.0001 s, the result is <<whole seconds, ten-thousandths>>
Fmt104f(t) ==
    LET q == (2 * t + Sub) \div (2 * Sub)
    IN  <<q \div 10000, q % 10000>>

\* the text both the prompt and the written line start with
LapText(c, t) == <<Fmt4d(c), Fmt104f(t)>>

\* mutant: the loop goes on whatever is typed
LoopOnAnyInput(key) == TRUE

\* the while condition of the lap loop: input(...) == ""
LapLoopGoesOn(key) == key = <<>>

\* mutant: the line is written before the counter is stepped
LapLineStale(c, t, c1, t1) == LapText(c, t)

\* the line outfile.write puts out, from the old (c, t) and new (c1, t1) values
LapLine(c, t, c1, t1) == LapText(c1, t1)

(***************************************************************************)
(* Stopwatch: the script's steps, cut at every input().                    *)
(***************************************************************************)
InitStopwatchVars ==
    /\ files \in SUBSET OnDisk
    /\ name = DefaultName
    /\ newname = <<>>
    /\ n = 0
    /\ good_name = 0
    /\ clock = 0
    /\ now = 0
    /\ laptime = 0
    /\ counter = 0
    /\ outfile = <<>>
    /\ prompt = <<>>
    /\ nDone = 0
    /\ truncated = FALSE
    /\ presses = 0
    /\ entered = [at |-> "none", text |-> <<>>]

IdleStopwatchVars ==
    /\ files = {}
    /\ name = DefaultName
    /\ newname = <<>>
    /\ n = 0
    /\ good_name = 0
    /\ clock = 0
    /\ now = 0
    /\ laptime = 0
    /\ counter = 0
    /\ outfile = <<>>
    /\ prompt = <<>>
    /\ nDone = 0
    /\ truncated = FALSE
    /\ presses = 0
    /\ entered = [at |-> "none", text |-> <<>>]

\* while (os.path.isfile(name)): print(...); name = input("Please enter ...")
RenamePrompt ==
    /\ pc = "isfile"
    /\ isfile(name)
    /\ \E s \in Names :
          /\ name' = s
          /\ entered' = [at |-> "rename", text |-> s]
    /\ UNCHANGED <<pc, files, newname, n, good_name, clock, now, laptime,
                   counter, outfile, prompt, nDone, truncated, presses>>
    /\ UNCHANGED <<arVars, prVars, fiVars, coVars, plVars, hfVars, ehVars, lfVars>>

\* the isfile loop ends; newname = name and the first good_name check
FirstCheck ==
    /\ pc = "isfile"
    /\ ~isfile(name)
    /\ newname' = name
    /\ good_name' = GoodName(name)
    /\ pc' = "validate"
    /\ UNCHANGED <<files, name, n, clock, now, laptime, counter, outfile,
                   prompt, nDone, truncated, presses, entered>>
    /\ UNCHANGED <<arVars, prVars, fiVars, coVars, plVars, hfVars, ehVars, lfVars>>

\* one pass of "while n<5 and (not good_name)" up to its first input()
ValidatePrompt ==
    /\ pc = "validate"
    /\ n < 5
    /\ good_name = 0
    /\ \E s \in Names :
          /\ newname' = s
          /\ entered' = [at |-> "validate", text |-> s]
          /\ n' = n + 1
          /\ IF Len(s) = 0
             THEN /\ pc' = "empty"
                  /\ UNCHANGED good_name
             ELSE /\ pc' = "validate"
                  /\ good_name' = GoodName(s)
    /\ UNCHANGED <<files, name, clock, now, laptime, counter, outfile,
                   prompt, nDone, truncated, presses>>
    /\ UNCHANGED <<arVars, prVars, fiVars, coVars, plVars, hfVars, ehVars, lfVars>>

\* newname = input("Name must not be empty: "); n+=1; continue
EmptyPrompt ==
    /\ pc = "empty"
    /\ \E s \in Names :
          /\ newname' = s
          /\ entered' = [at |-> "empty", text |-> s]
    /\ n' = n + 1
    /\ pc' = "validate"
    /\ UNCHANGED <<files, name, good_name, clock, now, laptime, counter,
                   outfile, prompt, nDone, truncated, presses>>
    /\ UNCHANGED <<arVars, prVars, fiVars, coVars, plVars, hfVars, ehVars, lfVars>>

\* if not good_name: print("ERROR: ..."); sys.exit()
ExitError ==
    /\ pc = "validate"
    /\ ~(n < 5 /\ good_name = 0)
    /\ good_name = 0
    /\ pc' = "exited"
    /\ UNCHANGED <<swVars, prVars, fiVars, coVars, plVars, hfVars, ehVars, lfVars>>
    /\ UNCHANGED <<arVars, prVars, fiVars, coVars, plVars, hfVars, ehVars, lfVars>>

\* else: name = newname; with open(name, "w") as outfile: now = time();
\* laptime = 0.0; counter = 0; and the first lap prompt is shown
OpenFile ==
    /\ pc = "validate"
    /\ ~(n < 5 /\ good_name = 0)
    /\ good_name # 0
    /\ name' = newname
    /\ truncated' = (newname \in files)
    /\ files' = files \cup {newname}
    /\ outfile' = <<>>
    /\ \E dt \in 0..MaxDt : clock' = clock + dt
    /\ now' = clock'
    /\ laptime' = 0
    /\ counter' = 0
    /\ prompt' = LapText(0, 0)
    /\ pc' = "record"
    /\ UNCHANGED <<newname, n, good_name, nDone, presses, entered>>
    /\ UNCHANGED <<arVars, prVars, fiVars, coVars, plVars, hfVars, ehVars, lfVars>>

\* input(...) == "": counter += 1; laptime = time()-now; outfile.write(...)
\* and the next prompt is shown
LapEnter ==
    /\ pc = "record"
    /\ counter < MaxLaps
    /\ \E key \in Keys, dt \in 0..MaxDt :
          /\ LapLoopGoesOn(key)
          /\ clock' = clock + dt
          /\ counter' = counter + 1
          /\ laptime' = clock' - now
          /\ outfile' = Append(outfile, LapLine(counter, laptime, counter', laptime'))
          /\ prompt' = LapText(counter', laptime')
          /\ presses' = presses + BoolInt(key = <<>>)
          /\ entered' = [at |-> "lap", text |-> key]
    /\ UNCHANGED <<pc, files, name, newname, n, good_name, now, nDone, truncated>>
    /\ UNCHANGED <<arVars, prVars, fiVars, coVars, plVars, hfVars, ehVars, lfVars>>

\* input(...) != "": the loop and the with block end; print("Done.")
LapExit ==
    /\ pc = "record"
    /\ \E key \in Keys :
          /\ ~LapLoopGoesOn(key)
          /\ entered' = [at |-> "lap", text |-> key]
    /\ nDone' = nDone + 1
    /\ pc' = "done"
    /\ UNCHANGED <<files, name, newname, n, good_name, clock, now, laptime, counter,
                   outfile, prompt, truncated, presses>>
    /\ UNCHANGED <<arVars, prVars, fiVars, coVars, plVars, hfVars, ehVars, lfVars>>

IdleAcceptRejectVars ==
    /\ i = 0
    /\ N_try = 0
    /\ x_test = 0
    /\ y_test = 0
    /\ x_accepted = <<>>
    /\ stores = <<>>
    /\ rejects = 0

NoProfile == [x_center |-> <<>>, mean |-> <<>>, std |-> <<>>]

IdleProfileVars ==
    /\ px = <<>>
    /\ py = <<>>
    /\ bins = <<1, 1>>
    /\ xyrange = <<<<0, 1>>, <<0, 1>>>>
    /\ profile = NoProfile
    /\ divZero = FALSE

IdleFisherVars ==
    /\ mu = <<>>
    /\ covmat_Vers = <<>>
    /\ covmat_Virg = <<>>
    /\ covmat_comb = <<>>
    /\ covmat_comb_inv = <<>>
    /\ wf = <<>>

IdleCompanyVars ==
    /\ Frequency = <<>>
    /\ Nworkers = <<>>
    /\ Ncompanies = <<>>
    /\ eNcompanies = <<>>

IdlePlotVars ==
    /\ save_plots = FALSE
    /\ SaveFigures = FALSE
    /\ figs = {}
    /\ savefigs = <<>>
    /\ raised = "none"

NoFit == [x |-> <<>>, y |-> <<>>, yerror |-> <<>>]

IdleHistFitVars ==
    /\ count = <<>>
    /\ sy = <<>>
    /\ fitted = NoFit

IdleEhrenfestVars ==
    /\ Place = <<>>
    /\ itest = 0
    /\ iturns = 0
    /\ Nballs = 0
    /\ H20 = <<>>
    /\ M = <<>>

IdleLinearFitVars ==
    /\ Npoints = 0
    /\ iexp = 0
    /\ lx = <<>>
    /\ ly = <<>>
    /\ sum = 0
    /\ sumx = 0
    /\ sumxx = 0
    /\ sumy = 0
    /\ sumxy = 0
    /\ Delta = 0
    /\ alpha0_calc = <<0, 1>>
    /\ alpha1_calc = <<0, 1>>

InitStopwatch ==
    /\ pc = "isfile"
    /\ InitStopwatchVars
    /\ IdleAcceptRejectVars
    /\ IdleProfileVars
    /\ IdleFisherVars
    /\ IdleCompanyVars
    /\ IdlePlotVars
    /\ IdleHistFitVars
    /\ IdleEhrenfestVars
    /\ IdleLinearFitVars

NextStopwatch ==
    \/ RenamePrompt
    \/ FirstCheck
    \/ ValidatePrompt
    \/ EmptyPrompt
    \/ ExitError
    \/ OpenFile
    \/ LapEnter
    \/ LapExit

SpecStopwatch == InitStopwatch /\ [][NextStopwatch]_vars

(***************************************************************************)
(* Stopwatch: the claims.                                                  *)
(***************************************************************************)
\* The three conditions on a file name, stated on the text itself.
Conforming(s) ==
    /\ s # <<>>
    /\ Head(s) \in Letters
    /\ \E k \in 0..Len(s) : s = SubSeq(s, 1, k) \o DotDat

Opened == pc \in {"record", "done"}

\* C1: the file that open(name, "w") opens never existed before: no
\* pre-existing file is truncated, whatever names the user enters.
C1_NoExistingFileTruncated == Opened => ~truncated

\* C2: whenever the output file is opened, its name is non-empty, starts
\* with a letter and ends with ".dat".
C2_OpenedNameConforms == Opened => Conforming(name)

C2_Witness ==
    /\ pc = "record"
    /\ entered.at = "validate"
    /\ n = 5
    /\ name # DefaultName

\* A name prompt or the error exit is still ahead, or the script has exited.
PromptOrErrorAhead ==
    \/ pc = "isfile" /\ isfile(name)
    \/ pc = "validate" /\ good_name = 0
    \/ pc = "empty"
    \/ pc = "exited"

\* C3: once the name most recently typed at a name prompt is non-empty,
\* starts with a letter and ends with ".dat", no further name prompt and no
\* error exit follows: the stopwatch starts.  The claim is taken here in the
\* reading most favourable to the script, for names that are not on disk
\* (a name that exists is asked for again by design).
C3_ConformingNameStarts ==
    ( /\ entered.at \in {"rename", "validate", "empty"}
      /\ Conforming(entered.text)
      /\ ~isfile(entered.text) )
        => ~PromptOrErrorAhead

\* C4: the k-th line of the output file carries counter k, there is one
\* line per Enter press, and the prompt shows the counter and lap time of
\* the line written last (0 and 0.0 before the first press).
C4_OneLinePerEnter ==
    Opened =>
        /\ Len(outfile) = presses
        /\ \A k \in 1..Len(outfile) : outfile[k][1] = Fmt4d(k)
        /\ prompt = IF outfile = <<>>
                    THEN <<Fmt4d(0), Fmt104f(0)>>
                    ELSE outfile[Len(outfile)]

C4_Witness ==
    /\ pc = "record"
    /\ presses >= 2
    /\ laptime > 0
    /\ Len(outfile) = presses

\* C5: the first non-empty input at the lap prompt ends the recording: it
\* writes no line, "Done." is printed exactly once, and nothing is written
\* to the file afterwards.
C5_ExitOnKey ==
    /\ [][ (pc = "record" /\ entered'.at = "lap" /\ entered'.text # <<>>)
              => (pc' = "done" /\ outfile' = outfile /\ nDone' = nDone + 1) ]_vars
    /\ [][ pc = "done" => (outfile' = outfile /\ nDone' = nDone) ]_vars
    /\ [](pc = "done" => nDone = 1)
    /\ [](pc = "record" => nDone = 0)

C5_Witness ==
    /\ pc = "done"
    /\ nDone = 1
    /\ Len(outfile) >= 1
    /\ entered.text # <<>>

(***************************************************************************)
(* Accept/reject sampler of f(x) = 2x on [0, 1].  Random numbers live on a *)
(* grid of Grid steps per unit: the integer k stands for the value k/Grid. *)
(***************************************************************************)
N_points == 2     \* points to produce (10000 in the notebook)
MaxTry == 4       \* passes of the inner loop explored
Grid == 2         \* grid steps per unit of x and y

xmin == 0
xmax == 1
ymin == 0
ymax == 2

\* r.uniform(low, high): any grid value from low to high
Uniform(low, high) == (low * Grid)..(high * Grid)

\* mutant: the test forgets x_test and compares with the box height
AcceptBelowYmax(x, y) == y < ymax * Grid

\* mutant: no pair is ever accepted
AcceptNothing(x, y) == y < 2 * x /\ x > xmax * Grid

\* if (y_test < 2 * x_test): break
Accept(x, y) == y < 2 * x

InitAcceptRejectVars ==
    /\ i = 0
    /\ N_try = 0
    /\ x_test = 0
    /\ y_test = 0
    /\ x_accepted = [k \in 1..N_points |-> 0]
    /\ stores = <<>>
    /\ rejects = 0

\* mutant: the try is counted after the break, so only rejected pairs count
TryCountedAfterBreak ==
    /\ pc = "ar_loop"
    /\ N_try < MaxTry
    /\ \E x \in Uniform(xmin, xmax), y \in Uniform(ymin, ymax) :
          /\ x_test' = x
          /\ y_test' = y
          /\ IF Accept(x, y)
             THEN /\ pc' = "ar_store"
                  /\ UNCHANGED <<rejects, N_try>>
             ELSE /\ pc' = "ar_loop"
                  /\ rejects' = rejects + 1
                  /\ N_try' = N_try + 1
    /\ UNCHANGED <<i, x_accepted, stores>>
    /\ UNCHANGED <<swVars, prVars, fiVars, coVars, plVars, hfVars, ehVars, lfVars>>

\* one pass of "while True": N_try += 1; draw x_test, y_test; break if accepted
Try ==
    /\ pc = "ar_loop"
    /\ N_try < MaxTry
    /\ N_try' = N_try + 1
    /\ \E x \in Uniform(xmin, xmax), y \in Uniform(ymin, ymax) :
          /\ x_test' = x
          /\ y_test' = y
          /\ IF Accept(x, y)
             THEN /\ pc' = "ar_store"
                  /\ UNCHANGED rejects
             ELSE /\ pc' = "ar_loop"
                  /\ rejects' = rejects + 1
    /\ UNCHANGED <<i, x_accepted, stores>>
    /\ UNCHANGED <<swVars, prVars, fiVars, coVars, plVars, hfVars, ehVars, lfVars>>

\* x_accepted[i] = x_test, and the for loop steps to the next i or ends
Store ==
    /\ pc = "ar_store"
    /\ x_accepted' = [x_accepted EXCEPT ![i + 1] = x_test]
    /\ stores' = Append(stores, [idx |-> i, x |-> x_test, y |-> y_test])
    /\ i' = i + 1
    /\ pc' = IF i + 1 < N_points THEN "ar_loop" ELSE "ar_done"
    /\ UNCHANGED <<N_try, x_test, y_test, rejects>>
    /\ UNCHANGED <<swVars, prVars, fiVars, coVars, plVars, hfVars, ehVars, lfVars>>

InitAcceptReject ==
    /\ pc = IF 0 < N_points THEN "ar_loop" ELSE "ar_done"
    /\ InitAcceptRejectVars
    /\ IdleStopwatchVars
    /\ IdleProfileVars
    /\ IdleFisherVars
    /\ IdleCompanyVars
    /\ IdlePlotVars
    /\ IdleHistFitVars
    /\ IdleEhrenfestVars
    /\ IdleLinearFitVars

NextAcceptReject ==
    \/ Try
    \/ Store

SpecAcceptReject == InitAcceptReject /\ [][NextAcceptReject]_vars

\* C6: every value in x_accepted was drawn inside [xmin, xmax] with a y
\* inside [ymin, ymax] below 2x; rejected pairs are never stored; the slots
\* are filled once each, in index order, and all are filled at the end.
C6_StoredOnlyAccepted ==
    /\ Len(stores) = i
    /\ \A k \in 1..Len(stores) :
          /\ stores[k].idx = k - 1
          /\ xmin * Grid <= stores[k].x /\ stores[k].x <= xmax * Grid
          /\ ymin * Grid <= stores[k].y /\ stores[k].y <= ymax * Grid
          /\ stores[k].y < 2 * stores[k].x
          /\ x_accepted[k] = stores[k].x
    /\ \A k \in (Len(stores) + 1)..N_points : x_accepted[k] = 0
    /\ (pc = "ar_done" => Len(stores) = N_points)

C6_Witness ==
    /\ pc = "ar_done"
    /\ rejects >= 1
    /\ \E k \in 1..N_points : x_accepted[k] # x_accepted[1]

MaxN == 2         \* longest input arrays explored

\* Values the entries of x and of y are drawn from, and the ranges tried.
XVals == {-1, 0, 4}
YVals == {-2, 0, 3}
Ranges == { <<<<0, 4>>, <<-2, 2>>>>, <<<<0, 3>>, <<-1, 3>>>> }
BinChoices == { <<1, 1>>, <<1, 2>>, <<2, 1>>, <<2, 2>>, <<3, 2>> }

RECURSIVE GCD(_, _)
GCD(a, b) == IF b = 0 THEN a ELSE GCD(b, a % b)

Abs(a) == IF a < 0 THEN -a ELSE a

\* a fraction in lowest terms; one with a zero denominator is left as it is
RatNorm(a) ==
    IF a[2] = 0
    THEN a
    ELSE LET g == GCD(Abs(a[1]), a[2]) IN <<a[1] \div g, a[2] \div g>>

RatEq(a, b) == a[1] * b[2] = b[1] * a[2]
RatAdd(a, b) == RatNorm(<<a[1] * b[2] + b[1] * a[2], a[2] * b[2]>>)
RatSub(a, b) == RatNorm(<<a[1] * b[2] - b[1] * a[2], a[2] * b[2]>>)
RatMul(a, b) == RatNorm(<<a[1] * b[1], a[2] * b[2]>>)
RatScale(c, a) == RatNorm(<<c * a[1], a[2]>>)
\* a / w for a count w; w = 0 leaves a zero denominator
RatDivCount(a, w) == RatNorm(<<a[1], a[2] * w>>)
\* 0.5 * a
RatHalf(a) == RatNorm(<<a[1], 2 * a[2]>>)
\* edge <= v for an integer v (denominators are positive)
RatLeInt(a, v) == a[1] <= v * a[2]

RECURSIVE RatSum(_)
RatSum(q) == IF q = <<>> THEN <<0, 1>> ELSE RatAdd(Head(q), RatSum(Tail(q)))

RECURSIVE IntSum(_)
IntSum(q) == IF q = <<>> THEN 0 ELSE Head(q) + IntSum(Tail(q))

\* the bin edges np.histogram2d lays out: nb equal bins from low to high
Edges(nb, rng) ==
    [k \in 1..(nb + 1) |-> <<rng[1] * nb + (k - 1) * (rng[2] - rng[1]), nb>>]

\* 0.5*(edges[1:] + edges[:-1])
Centers(e) == [k \in 1..(Len(e) - 1) |-> RatHalf(RatAdd(e[k + 1], e[k]))]

\* the bin (1..nb) np.histogram2d puts v in; 0 or nb+1 when v is outside.
\* An entry on the last edge belongs to the last bin.
BinOf(v, e) ==
    LET below == Cardinality({k \in 1..Len(e) : RatLeInt(e[k], v)})
    IN  IF RatEq(e[Len(e)], <<v, 1>>) THEN Len(e) - 1 ELSE below

\* H of np.histogram2d(x, y, bins=bins, range=xyrange)
Histogram2d(x, y, b, rng) ==
    LET xe == Edges(b[1], rng[1])
        ye == Edges(b[2], rng[2])
    IN  [kx \in 1..b[1] |-> [ky \in 1..b[2] |->
            Cardinality({m \in 1..Len(x) :
                            BinOf(x[m], xe) = kx /\ BinOf(y[m], ye) = ky})]]

\* a[mask]: the elements of a where mask is true, in order
RECURSIVE Compress(_, _)
Compress(a, mask) ==
    IF a = <<>>
    THEN <<>>
    ELSE (IF Head(mask) THEN <<Head(a)>> ELSE <<>>)
            \o Compress(Tail(a), Tail(mask))

\* mutant: empty bins are let through
MaskNonNegative(wsums) == [k \in 1..Len(wsums) |-> wsums[k] >= 0]

\* mask = wsums > 0
Mask(wsums) == [k \in 1..Len(wsums) |-> wsums[k] > 0]

\* the body of profile_x, and whether it divided by a zero count
ProfileX(x, y, b, rng) ==
    LET H == Histogram2d(x, y, b, rng)
        x_center == Centers(Edges(b[1], rng[1]))
        y_center == Centers(Edges(b[2], rng[2]))
        wsums == [kx \in 1..b[1] |-> IntSum(H[kx])]
        mask == Mask(wsums)
        w == Compress(wsums, mask)
        s1 == Compress([kx \in 1..b[1] |->
                  RatSum([ky \in 1..b[2] |-> RatScale(H[kx][ky], y_center[ky])])],
                  mask)
        s2 == Compress([kx \in 1..b[1] |->
                  RatSum([ky \in 1..b[2] |->
                      RatScale(H[kx][ky], RatMul(y_center[ky], y_center[ky]))])],
                  mask)
        mean == [k \in 1..Len(w) |-> RatDivCount(s1[k], w[k])]
        mean_squared == [k \in 1..Len(w) |-> RatDivCount(s2[k], w[k])]
        \* np.sqrt(a) / np.sqrt(w) is the root of a / w
        std == [k \in 1..Len(w) |->
                   [sqrt |-> RatDivCount(
                        RatSub(mean_squared[k], RatMul(mean[k], mean[k])), w[k])]]
    IN  [out |-> [x_center |-> Compress(x_center, mask), mean |-> mean, std |-> std],
         divZero |-> \E k \in 1..Len(w) : w[k] = 0]

InitProfileVars ==
    /\ \E len \in 0..MaxN :
          /\ px \in [1..len -> XVals]
          /\ py \in [1..len -> YVals]
    /\ bins \in BinChoices
    /\ xyrange \in Ranges
    /\ profile = NoProfile
    /\ divZero = FALSE

\* x_center, mean, std = profile_x(x, y, bins, xyrange)
CallProfileX ==
    /\ pc = "pr_call"
    /\ LET r == ProfileX(px, py, bins, xyrange)
       IN  /\ profile' = r.out
           /\ divZero' = r.divZero
    /\ pc' = "pr_done"
    /\ UNCHANGED <<px, py, bins, xyrange>>
    /\ UNCHANGED <<swVars, arVars, fiVars, coVars, plVars, hfVars, ehVars, lfVars>>

InitProfile ==
    /\ pc = "pr_call"
    /\ InitProfileVars
    /\ IdleStopwatchVars
    /\ IdleAcceptRejectVars
    /\ IdleFisherVars
    /\ IdleCompanyVars
    /\ IdlePlotVars
    /\ IdleHistFitVars
    /\ IdleEhrenfestVars
    /\ IdleLinearFitVars

NextProfile == CallProfileX

SpecProfile == InitProfile /\ [][NextProfile]_vars

\* The entries (indices into x, y) that lie inside xyrange and in x-bin kx,
\* stated on the values: bin kx is [low + (kx-1)*width, low + kx*width),
\* the last bin closed on the right.
InBin(v, k, nb, rng) ==
    /\ rng[1] <= v /\ v <= rng[2]
    /\ \/ (k - 1) * (rng[2] - rng[1]) <= (v - rng[1]) * nb
          /\ (v - rng[1]) * nb < k * (rng[2] - rng[1])
       \/ k = nb /\ v = rng[2]

EntriesOf(kx) ==
    {m \in 1..Len(px) :
        /\ InBin(px[m], kx, bins[1], xyrange[1])
        /\ \E ky \in 1..bins[2] : InBin(py[m], ky, bins[2], xyrange[2])}

FilledXBins == {kx \in 1..bins[1] : EntriesOf(kx) # {}}

\* the k-th x-bin, counting only those with an entry
KthFilled(k) ==
    CHOOSE kx \in 1..bins[1] :
        Cardinality({j \in FilledXBins : j <= kx}) = k
            /\ (kx \in FilledXBins \/ FilledXBins = {})

\* the centre of bin k of nb equal bins over rng
CentreOf(k, nb, rng) == <<2 * rng[1] * nb + (2 * k - 1) * (rng[2] - rng[1]), 2 * nb>>

\* the y-bin of entry m (it lies inside the y range)
YBinOf(m) == CHOOSE ky \in 1..bins[2] : InBin(py[m], ky, bins[2], xyrange[2])

RECURSIVE SumOver(_, _)
\* the sum of the fractions f[m] over the indices m of the set S
SumOver(S, f) ==
    IF S = {}
    THEN <<0, 1>>
    ELSE LET m == CHOOSE z \in S : TRUE
         IN  RatAdd(f[m], SumOver(S \ {m}, f))

\* <y> and <y^2> - <y>^2 of the y-bin centres of the entries of x-bin kx
MeanY(kx) ==
    LET E == EntriesOf(kx)
        yc == [m \in E |-> CentreOf(YBinOf(m), bins[2], xyrange[2])]
    IN  RatDivCount(SumOver(E, yc), Cardinality(E))

VarY(kx) ==
    LET E == EntriesOf(kx)
        yc2 == [m \in E |->
                  LET c == CentreOf(YBinOf(m), bins[2], xyrange[2]) IN RatMul(c, c)]
    IN  RatSub(RatDivCount(SumOver(E, yc2), Cardinality(E)),
               RatMul(MeanY(kx), MeanY(kx)))

\* C8: empty x-bins are masked out of all three outputs, no division by a
\* zero count occurs, and the three arrays have the same length, the number
\* of x-bins with at least one entry (at most bins[0]).
C8_EmptyBinsMasked ==
    pc = "pr_done" =>
        /\ ~divZero
        /\ Len(profile.x_center) = Cardinality(FilledXBins)
        /\ Len(profile.mean) = Cardinality(FilledXBins)
        /\ Len(profile.std) = Cardinality(FilledXBins)
        /\ Cardinality(FilledXBins) <= bins[1]
        /\ \A k \in 1..Len(profile.mean) :
              profile.mean[k][2] # 0 /\ profile.std[k].sqrt[2] # 0
        /\ \A k \in 1..Len(profile.x_center) :
              /\ KthFilled(k) \in FilledXBins
              /\ RatEq(profile.x_center[k],
                       CentreOf(KthFilled(k), bins[1], xyrange[1]))

C8_Witness ==
    /\ pc = "pr_done"
    /\ Len(profile.x_center) = 1
    /\ bins[1] = 2
    /\ Len(px) = 2

\* C9: for every x-bin kept, the second output is the count-weighted mean
\* of the y-bin centres and the third is sqrt(<y^2> - <y>^2), the standard
\* deviation of that distribution.
C9_MeanAndStdDev ==
    pc = "pr_done" =>
        \A k \in 1..Len(profile.mean) :
            /\ RatEq(profile.mean[k], MeanY(KthFilled(k)))
            /\ RatEq(profile.std[k].sqrt, VarY(KthFilled(k)))

\* what the code returns as its third output: the spread divided by the
\* root of the number of entries, i.e. the uncertainty of the mean
ProfileReturnsErrorOfMean ==
    pc = "pr_done" =>
        \A k \in 1..Len(profile.mean) :
            /\ RatEq(profile.mean[k], MeanY(KthFilled(k)))
            /\ RatEq(profile.std[k].sqrt,
                     RatDivCount(VarY(KthFilled(k)),
                                 Cardinality(EntriesOf(KthFilled(k)))))

(***************************************************************************)
(* Fisher discriminant between Versicolor and Virginica.  Matrices are     *)
(* sequences of rows; the class means are whole numbers of a data unit.    *)
(***************************************************************************)
nvar == 4
nspec == 3

\* the rows of mu (Python counts the species from 0)
Setosa == 1
Versicolor == 2
Virginica == 3

\* mean vectors a class of the data may have
MuRows == { <<0, 0, 0, 0>>, <<5, 3, 1, 0>>, <<6, 3, 4, 1>>, <<7, 3, 6, 2>>,
            <<6, 7, 8, 9>> }

\* np.ones((r, c)) and np.eye(r, c)
Ones(r, c) == [a \in 1..r |-> [b \in 1..c |-> 1]]
Eye(r, c) == [a \in 1..r |-> [b \in 1..c |-> IF a = b THEN 1 ELSE 0]]

\* A + B for matrices
MatAdd(A, B) == [a \in 1..Len(A) |-> [b \in 1..Len(A[a]) |-> A[a][b] + B[a][b]]]

\* A without row r and column c
Minor(A, r, c) ==
    [a \in 1..(Len(A) - 1) |-> [b \in 1..(Len(A) - 1) |->
        A[IF a < r THEN a ELSE a + 1][IF b < c THEN b ELSE b + 1]]]

Sign(k) == IF k % 2 = 0 THEN 1 ELSE -1

RECURSIVE Det(_)
Det(A) ==
    IF Len(A) = 1
    THEN A[1][1]
    ELSE IntSum([c \in 1..Len(A) |-> Sign(1 + c) * A[1][c] * Det(Minor(A, 1, c))])

\* numpy.linalg.inv(A) of a non-singular A: the adjugate over the determinant
Inv(A) ==
    LET d == Det(A)
    IN  [a \in 1..Len(A) |-> [b \in 1..Len(A) |->
            RatNorm(IF d > 0
                    THEN <<Sign(a + b) * Det(Minor(A, b, a)), d>>
                    ELSE <<-Sign(a + b) * Det(Minor(A, b, a)), -d>>)]]

InitFisherVars ==
    /\ mu \in [1..nspec -> MuRows]
    /\ covmat_Vers = <<>>
    /\ covmat_Virg = <<>>
    /\ covmat_comb = <<>>
    /\ covmat_comb_inv = <<>>
    /\ wf = <<>>

\* covmat_Vers = np.ones((4,4)); covmat_Virg = np.eye(4,4)
SetCovmat ==
    /\ pc = "fi_cov"
    /\ covmat_Vers' = Ones(4, 4)
    /\ covmat_Virg' = Eye(4, 4)
    /\ pc' = "fi_comb"
    /\ UNCHANGED <<mu, covmat_comb, covmat_comb_inv, wf>>
    /\ UNCHANGED <<swVars, arVars, prVars, coVars, plVars, hfVars, ehVars, lfVars>>

\* covmat_comb = covmat_Vers + covmat_Virg; covmat_comb_inv = inv(covmat_comb)
\* (inv raises LinAlgError on a singular matrix and the cell stops)
CombineAndInvert ==
    /\ pc = "fi_comb"
    /\ LET comb == MatAdd(covmat_Vers, covmat_Virg)
       IN  /\ covmat_comb' = comb
           /\ IF Det(comb) # 0
              THEN /\ covmat_comb_inv' = Inv(comb)
                   /\ pc' = "fi_wf"
              ELSE /\ UNCHANGED covmat_comb_inv
                   /\ pc' = "fi_error"
    /\ UNCHANGED <<mu, covmat_Vers, covmat_Virg, wf>>
    /\ UNCHANGED <<swVars, arVars, prVars, coVars, plVars, hfVars, ehVars, lfVars>>

\* wf = np.array([0, 1, 2, 3])
CalcWf ==
    /\ pc = "fi_wf"
    /\ wf' = <<0, 1, 2, 3>>
    /\ pc' = "fi_done"
    /\ UNCHANGED <<mu, covmat_Vers, covmat_Virg, covmat_comb, covmat_comb_inv>>
    /\ UNCHANGED <<swVars, arVars, prVars, coVars, plVars, hfVars, ehVars, lfVars>>

InitFisher ==
    /\ pc = "fi_cov"
    /\ InitFisherVars
    /\ IdleStopwatchVars
    /\ IdleAcceptRejectVars
    /\ IdleProfileVars
    /\ IdleCompanyVars
    /\ IdlePlotVars
    /\ IdleHistFitVars
    /\ IdleEhrenfestVars
    /\ IdleLinearFitVars

NextFisher ==
    \/ SetCovmat
    \/ CombineAndInvert
    \/ CalcWf

SpecFisher == InitFisher /\ [][NextFisher]_vars

\* row a of the matrix of fractions A times the whole-number vector v
RowTimes(A, a, v) == RatSum([b \in 1..Len(v) |-> RatScale(v[b], A[a][b])])

\* wf is A^-1 (mu[p] - mu[q]), checked through A itself: A wf = mu[p] - mu[q]
SolvesFisher(p, q) ==
    /\ Len(wf) = nvar
    /\ \A a \in 1..nvar :
          IntSum([b \in 1..nvar |-> covmat_comb[a][b] * wf[b]]) = mu[p][a] - mu[q][a]
    /\ \A a \in 1..nvar :
          RatEq(<<wf[a], 1>>,
                RowTimes(covmat_comb_inv, a, [b \in 1..nvar |-> mu[p][b] - mu[q][b]]))

\* C10: the Fisher weights wf are the inverse of the combined covariance
\* matrix covmat_Vers + covmat_Virg times the difference of the class means
\* of Versicolor and Virginica (in either order).
C10_FisherWeightsSolveSystem ==
    pc = "fi_done" =>
        /\ covmat_comb = MatAdd(covmat_Vers, covmat_Virg)
        /\ SolvesFisher(Versicolor, Virginica) \/ SolvesFisher(Virginica, Versicolor)

\* covmat_comb_inv is the inverse of covmat_comb: their product is the unit
\* matrix
InverseIsInverse ==
    pc \in {"fi_wf", "fi_done"} =>
        \A a \in 1..nvar : \A b \in 1..nvar :
            RatEq(RatSum([c \in 1..nvar |-> RatScale(covmat_comb[a][c], covmat_comb_inv[c][b])]),
                  <<(IF a = b THEN 1 ELSE 0), 1>>)

(***************************************************************************)
(* CompanySize: the cell that reads the data file and sets up the arrays   *)
(* of the fit.                                                             *)
(***************************************************************************)
MaxRows == 201    \* longest data file explored, in rows

\* np.arange(a, b): the whole numbers from a up to b - 1
arange(a, b) == [k \in 1..(IF b > a THEN b - a ELSE 0) |-> a + k - 1]

\* s.iloc[a:b].values: rows a to b - 1 (counted from 0) that exist
iloc(s, a, b) == SubSeq(s, a + 1, IF b < Len(s) THEN b ELSE Len(s))

\* np.ones(k)
ones(k) == [j \in 1..k |-> 1]

\* the files read_csv may find: any number of rows, two fillings
InitCompanyVars ==
    /\ \E r \in 0..MaxRows, f \in 1..2 : Frequency = [k \in 1..r |-> f * k]
    /\ Nworkers = <<>>
    /\ Ncompanies = <<>>
    /\ eNcompanies = <<>>

\* Nworkers = np.arange(1, 200); Ncompanies = data_test["Frequency"]
\* .iloc[1:200].values; eNcompanies = np.ones(200)
LoadCompanyData ==
    /\ pc = "co_read"
    /\ Nworkers' = arange(1, 200)
    /\ Ncompanies' = iloc(Frequency, 1, 200)
    /\ eNcompanies' = ones(200)
    /\ pc' = "co_loaded"
    /\ UNCHANGED Frequency
    /\ UNCHANGED <<swVars, arVars, prVars, fiVars, plVars, hfVars, ehVars, lfVars>>

InitCompanySize ==
    /\ pc = "co_read"
    /\ InitCompanyVars
    /\ IdleStopwatchVars
    /\ IdleAcceptRejectVars
    /\ IdleProfileVars
    /\ IdleFisherVars
    /\ IdlePlotVars
    /\ IdleHistFitVars
    /\ IdleEhrenfestVars
    /\ IdleLinearFitVars

NextCompanySize == LoadCompanyData

SpecCompanySize == InitCompanySize /\ [][NextCompanySize]_vars

\* C11: once the data are loaded, Nworkers, Ncompanies and eNcompanies have
\* the same number of elements, and element k of Ncompanies is the file's
\* row for the company size Nworkers[k].
C11_ColumnsAligned ==
    pc = "co_loaded" =>
        /\ Len(Nworkers) = Len(Ncompanies)
        /\ Len(Ncompanies) = Len(eNcompanies)
        /\ \A k \in 1..Len(Ncompanies) :
              k <= Len(Nworkers) /\ Ncompanies[k] = Frequency[Nworkers[k] + 1]

\* the two arrays that are filled from one range do agree when the file is
\* long enough: Nworkers and Ncompanies have 199 elements each, and
\* eNcompanies has 200 whatever the file holds
CompanyArrayLengths ==
    pc = "co_loaded" =>
        /\ Len(Nworkers) = 199
        /\ Len(eNcompanies) = 200
        /\ (Len(Frequency) >= 200 => Len(Ncompanies) = 199)
        /\ (Len(Frequency) < 200 => Len(Ncompanies) < 199)

(***************************************************************************)
(* Plot files.  A notebook draws a figure and, under its save flag, calls  *)
(* savefig on it; the file names are sequences of characters, as in the    *)
(* stopwatch.                                                              *)
(***************************************************************************)
DotPdf == <<".", "p", "d", "f">>

\* the file name in fig.savefig("Hist_2x_TransformationMethod.pdf", dpi=600)
TransformationPdf ==
    <<"H", "i", "s", "t", "_", "2", "x", "_", "T", "r", "a", "n",
      "s", "f", "o", "r", "m", "a", "t", "i", "o", "n", "M", "e",
      "t", "h", "o", "d", ".", "p", "d", "f">>

\* the file name in fig2.savefig("Hist_2x_AcceptRejectMethod.pdf", dpi=600)
AcceptRejectPdf ==
    <<"H", "i", "s", "t", "_", "2", "x", "_", "A", "c", "c", "e",
      "p", "t", "R", "e", "j", "e", "c", "t", "M", "e", "t", "h",
      "o", "d", ".", "p", "d", "f">>

\* the file name in fig_rel.savefig('Resolution_Uncalibrated.pdf', dpi=600)
ResolutionPdf ==
    <<"R", "e", "s", "o", "l", "u", "t", "i", "o", "n", "_", "U",
      "n", "c", "a", "l", "i", "b", "r", "a", "t", "e", "d", ".",
      "p", "d", "f">>

\* mutant: the plot is saved whatever the flag says
SavesAlways(flag) == TRUE

\* if save_plots: / if (SaveFigures):
SavesPlot(flag) == flag

\* f.savefig(file) in a namespace where the names in defined are bound: the
\* call is carried out, or the unbound name f raises NameError
Savefig(defined, f, file) ==
    IF f \in defined
    THEN /\ savefigs' = Append(savefigs, [fig |-> f, file |-> file])
         /\ UNCHANGED raised
    ELSE /\ raised' = "NameError"
         /\ UNCHANGED savefigs

InitPlotVars ==
    /\ figs = {}
    /\ savefigs = <<>>
    /\ raised = "none"

\* accept/reject notebook, the cells up to the transformation-method plot:
\* fig, ax = plt.subplots(...); ...; if save_plots: fig.savefig(...)
DrawTransformationPlot ==
    /\ pc = "tr_plot"
    /\ figs' = figs \cup {"fig"}
    /\ IF SavesPlot(save_plots)
       THEN Savefig(figs', "fig", TransformationPdf)
       ELSE UNCHANGED <<savefigs, raised>>
    /\ pc' = IF raised' # "none" THEN "ar_error"
             ELSE IF 0 < N_points THEN "ar_loop" ELSE "ar_done"
    /\ UNCHANGED <<save_plots, SaveFigures>>
    /\ UNCHANGED <<swVars, arVars, prVars, fiVars, coVars, hfVars, ehVars, lfVars>>

\* accept/reject notebook, the cells after the sampling loop:
\* fig2, ax2 = plt.subplots(...); ...; if save_plots: fig2.savefig(...)
DrawAcceptRejectPlot ==
    /\ pc = "ar_done"
    /\ figs' = figs \cup {"fig2"}
    /\ IF SavesPlot(save_plots)
       THEN Savefig(figs', "fig2", AcceptRejectPdf)
       ELSE UNCHANGED <<savefigs, raised>>
    /\ pc' = IF raised' # "none" THEN "ar_error" ELSE "ar_saved"
    /\ UNCHANGED <<save_plots, SaveFigures>>
    /\ UNCHANGED <<swVars, arVars, prVars, fiVars, coVars, hfVars, ehVars, lfVars>>

\* calibration notebook, the cell of the uncalibrated resolution:
\* fig_RD, ax_RD = plt.subplots(...); ...;
\* if (SaveFigures): fig_rel.savefig('Resolution_Uncalibrated.pdf', dpi=600)
ResolutionCell ==
    /\ pc = "ca_cell"
    /\ figs' = figs \cup {"fig_RD"}
    /\ IF SavesPlot(SaveFigures)
       THEN Savefig(figs', "fig_rel", ResolutionPdf)
       ELSE UNCHANGED <<savefigs, raised>>
    /\ pc' = IF raised' # "none" THEN "ca_error" ELSE "ca_done"
    /\ UNCHANGED <<save_plots, SaveFigures>>
    /\ UNCHANGED <<swVars, arVars, prVars, fiVars, coVars, hfVars, ehVars, lfVars>>

\* the accept/reject notebook from its first cell, with either flag value
InitAcceptRejectPlots ==
    /\ pc = "tr_plot"
    /\ InitAcceptRejectVars
    /\ save_plots \in BOOLEAN
    /\ SaveFigures = FALSE
    /\ InitPlotVars
    /\ IdleStopwatchVars
    /\ IdleProfileVars
    /\ IdleFisherVars
    /\ IdleCompanyVars
    /\ IdleHistFitVars
    /\ IdleEhrenfestVars
    /\ IdleLinearFitVars

\* the calibration notebook at its resolution cell, with either flag value
InitCalibration ==
    /\ pc = "ca_cell"
    /\ save_plots = FALSE
    /\ SaveFigures \in BOOLEAN
    /\ InitPlotVars
    /\ IdleStopwatchVars
    /\ IdleAcceptRejectVars
    /\ IdleProfileVars
    /\ IdleFisherVars
    /\ IdleCompanyVars
    /\ IdleHistFitVars
    /\ IdleEhrenfestVars
    /\ IdleLinearFitVars

InitOutputFiles ==
    \/ InitStopwatch
    \/ InitAcceptRejectPlots
    \/ InitCalibration

NextOutputFiles ==
    \/ NextStopwatch
    \/ DrawTransformationPlot
    \/ NextAcceptReject
    \/ DrawAcceptRejectPlot
    \/ ResolutionCell

SpecOutputFiles == InitOutputFiles /\ [][NextOutputFiles]_vars

(***************************************************************************)
(* Plot files: the claims.                                                 *)
(***************************************************************************)
\* the save flag of the notebook that is running
FlagSet == save_plots \/ SaveFigures

\* a step that creates or modifies a file: open(name, "w"), outfile.write
\* or savefig
FileTouched ==
    \/ pc = "validate" /\ pc' = "record"
    \/ outfile' # outfile
    \/ savefigs' # savefigs

\* a step whose only file output is one savefig to a name ending in .pdf
PlotSaved ==
    /\ Len(savefigs') = Len(savefigs) + 1
    /\ SubSeq(savefigs', 1, Len(savefigs)) = savefigs
    /\ endswith(savefigs'[Len(savefigs')].file, DotPdf)
    /\ outfile' = outfile
    /\ files' = files
    /\ ~(pc = "validate" /\ pc' = "record")

\* a step of the stopwatch that opens or extends its own output file
StopwatchOutput ==
    /\ pc \in {"validate", "record"}
    /\ pc' = "record"
    /\ savefigs' = savefigs
    /\ endswith(name', DotDat)
    /\ files' = files \cup {name'}

\* C12 as claimed: every step that creates or modifies a file is a savefig
\* of a PDF file taken while the notebook's save flag is true.
C12_OnlyFlaggedPdfWrites == [][ FileTouched => (PlotSaved /\ FlagSet) ]_vars

\* C12, amended: apart from the stopwatch script, which has no save flag
\* and always writes its .dat output file, every step that creates or
\* modifies a file is a savefig of a PDF file taken while the notebook's
\* save flag is true; with the flag false a notebook run to its end has
\* written nothing.
C12_PdfUnderFlagOrStopwatchOutput ==
    /\ [][ FileTouched => (StopwatchOutput \/ (PlotSaved /\ FlagSet)) ]_vars
    /\ [](savefigs # <<>> => FlagSet)
    /\ []((pc \in {"ar_saved", "ca_done"} /\ ~FlagSet) =>
              (savefigs = <<>> /\ outfile = <<>> /\ files = {}))

C12_Witness ==
    /\ pc = "ar_saved"
    /\ save_plots
    /\ Len(savefigs) = 2
    /\ savefigs[1].file = TransformationPdf
    /\ savefigs[2].file = AcceptRejectPdf

\* C18: when the resolution cell has run with SaveFigures true, fig_RD has
\* been written to Resolution_Uncalibrated.pdf and no error was raised; with
\* SaveFigures false nothing has been written.
C18_ResolutionFigureSaved ==
    pc \in {"ca_done", "ca_error"} =>
        IF SaveFigures
        THEN /\ savefigs = <<[fig |-> "fig_RD", file |-> ResolutionPdf]>>
             /\ raised = "none"
             /\ pc = "ca_done"
        ELSE savefigs = <<>> /\ raised = "none"

\* what the cell does: it never writes a file; with SaveFigures true it
\* stops with NameError
ResolutionCellNeverSaves ==
    pc \in {"ca_done", "ca_error"} =>
        /\ savefigs = <<>>
        /\ (SaveFigures <=> raised = "NameError")
        /\ (SaveFigures <=> pc = "ca_error")

(***************************************************************************)
(* Chi-square fits to histogram counts: what each of the three notebooks   *)
(* hands to cost.LeastSquares(x, y, yerror, model).  A square root is kept *)
(* as its radicand.                                                        *)
(***************************************************************************)
MaxHBins == 3     \* most bins of a histogram explored
MaxCount == 5     \* largest bin count explored

\* int(np.sqrt(m)) for a whole number m
isqrt(m) == CHOOSE k \in 0..m : k * k <= m /\ m < (k + 1) * (k + 1)

\* np.sqrt(a), element by element
npsqrt(a) == [k \in 1..Len(a) |-> [sqrt |-> a[k]]]

\* a > 0, element by element
Positive(a) == [k \in 1..Len(a) |-> a[k] > 0]

\* the x of bin k: its left edge or its centre, in units of the bin index
BinX(a) == [k \in 1..Len(a) |-> k]

\* np.histogram(y-yfit, bins=int(np.sqrt(len(y)))) can return c: as many
\* bins as the root of the number of entries, laid from the smallest to the
\* largest residual, so that the first and the last bin are filled
IsResidualHistogram(c) ==
    /\ Len(c) = isqrt(IntSum(c))
    /\ c[1] > 0
    /\ c[Len(c)] > 0

InitHistFitVars ==
    /\ \E nb \in 1..MaxHBins : count \in [1..nb -> 0..MaxCount]
    /\ sy = <<>>
    /\ fitted = NoFit

\* HypothesisTesting, fit(x, y): sy = np.sqrt(count);
\* gaussfit = cost.LeastSquares(bins[:-1], count, sy, model=gauss_pdf);
\* count = count[count>0]
FitResiduals ==
    /\ pc = "hf_hist"
    /\ IsResidualHistogram(count)
    /\ sy' = npsqrt(count)
    /\ fitted' = [x |-> BinX(count), y |-> count, yerror |-> sy']
    /\ count' = Compress(count, Positive(count))
    /\ pc' = "hf_fitted"
    /\ UNCHANGED <<swVars, arVars, prVars, fiVars, coVars, plVars, ehVars, lfVars>>

\* ChiSquareTest: syExp = np.sqrt(yExp);
\* LeastSquares(xExp[yExp>0], yExp[yExp>0], syExp[yExp>0], fit_function_Exp)
FitExponential ==
    /\ pc = "hf_hist"
    /\ sy' = npsqrt(count)
    /\ fitted' = [x |-> Compress(BinX(count), Positive(count)),
                  y |-> Compress(count, Positive(count)),
                  yerror |-> Compress(sy', Positive(count))]
    /\ pc' = "hf_fitted"
    /\ UNCHANGED count
    /\ UNCHANGED <<swVars, arVars, prVars, fiVars, coVars, plVars, ehVars, lfVars>>

\* BinnedLikelihood: cost.LeastSquares(time[data_Npos>0],
\* data_Npos[data_Npos > 0], np.sqrt(data_Npos[data_Npos>0]), sigmoid)
FitSigmoid ==
    /\ pc = "hf_hist"
    /\ fitted' = [x |-> Compress(BinX(count), Positive(count)),
                  y |-> Compress(count, Positive(count)),
                  yerror |-> npsqrt(Compress(count, Positive(count)))]
    /\ pc' = "hf_fitted"
    /\ UNCHANGED <<count, sy>>
    /\ UNCHANGED <<swVars, arVars, prVars, fiVars, coVars, plVars, ehVars, lfVars>>

InitHistFits ==
    /\ pc = "hf_hist"
    /\ InitHistFitVars
    /\ IdleStopwatchVars
    /\ IdleAcceptRejectVars
    /\ IdleProfileVars
    /\ IdleFisherVars
    /\ IdleCompanyVars
    /\ IdlePlotVars
    /\ IdleEhrenfestVars
    /\ IdleLinearFitVars

NextHistFits ==
    \/ FitResiduals
    \/ FitExponential
    \/ FitSigmoid

SpecHistFits == InitHistFits /\ [][NextHistFits]_vars

\* C13: every count handed to a LeastSquares fit is greater than 0 and every
\* uncertainty handed with it is the root of that count, so strictly
\* positive.
C13_FitsGetOnlyFilledBins ==
    pc = "hf_fitted" =>
        /\ Len(fitted.x) = Len(fitted.y)
        /\ Len(fitted.yerror) = Len(fitted.y)
        /\ \A k \in 1..Len(fitted.y) :
              /\ fitted.y[k] > 0
              /\ fitted.yerror[k].sqrt = fitted.y[k]
              /\ fitted.yerror[k].sqrt > 0

\* the arrays of one fit always pair up, and each uncertainty is the root of
\* its count, empty bins included
FitArraysPairUp ==
    pc = "hf_fitted" =>
        /\ Len(fitted.x) = Len(fitted.y)
        /\ Len(fitted.yerror) = Len(fitted.y)
        /\ \A k \in 1..Len(fitted.y) : fitted.yerror[k].sqrt = fitted.y[k]

(***************************************************************************)
(* Ehrenfest ball game: the simulation loop and the transfer matrix.       *)
(* Ball id of the script is element id + 1 of Place; M keeps the script's  *)
(* indices 0..NB.                                                          *)
(***************************************************************************)
NB == 10

ntest == 1        \* experiments simulated (50 in the notebook)
nturns == 8       \* turns per experiment (20 in the notebook)

\* Initial_Place = np.zeros((NB,), dtype=int); Initial_Place[3:] = 1
Initial_Place == [k \in 1..NB |-> IF k <= 3 THEN 0 ELSE 1]

\* np.sum(Place==0)
CountBlue(P) == Cardinality({k \in 1..Len(P) : P[k] = 0})

\* mutant: only seven of the balls are ever picked
randintShort(low, high) == low..(high - 4)

\* np.random.randint(low, high): any whole number from low to high - 1
randint(low, high) == low..(high - 1)

\* mutant: the picked ball always ends in the red basket
FlipToRed(P, id) == [P EXCEPT ![id + 1] = 1]

\* if (Place[id] == 0): Place[id] = 1 else: Place[id] = 0
Flip(P, id) == [P EXCEPT ![id + 1] = IF P[id + 1] = 0 THEN 1 ELSE 0]

\* mutant: the two jump probabilities of a row change places
TransferMatrixSwapped(nb) ==
    [a \in 0..nb |-> [b \in 0..nb |->
        IF b = a - 1 THEN RatNorm(<<nb - a, nb>>)
        ELSE IF b = a + 1 THEN RatNorm(<<a, nb>>)
        ELSE <<0, 1>>]]

\* M = np.zeros((NB+1,NB+1)) and the loop over its rows: row 0 gets
\* M[i,i+1] = (NB-i)/NB, row NB gets M[i,i-1] = i/NB, the others get both
TransferMatrix(nb) ==
    [a \in 0..nb |-> [b \in 0..nb |->
        IF a = 0
        THEN (IF b = a + 1 THEN RatNorm(<<nb - a, nb>>) ELSE <<0, 1>>)
        ELSE IF a = nb
        THEN (IF b = a - 1 THEN RatNorm(<<a, nb>>) ELSE <<0, 1>>)
        ELSE IF b = a - 1 THEN RatNorm(<<a, nb>>)
        ELSE IF b = a + 1 THEN RatNorm(<<nb - a, nb>>)
        ELSE <<0, 1>>]]

\* H20 = np.zeros(ntest)
InitEhrenfestVars ==
    /\ Place = <<>>
    /\ itest = 0
    /\ iturns = 0
    /\ Nballs = 0
    /\ H20 = [k \in 1..ntest |-> 0]
    /\ M = <<>>

\* Place = Initial_Place.copy(); Nballs[0] = np.sum(Place==0)
StartTest ==
    /\ pc = "eh_test"
    /\ Place' = Initial_Place
    /\ Nballs' = CountBlue(Place')
    /\ iturns' = 0
    /\ pc' = IF 0 < nturns THEN "eh_turn" ELSE "eh_end"
    /\ UNCHANGED <<itest, H20, M>>
    /\ UNCHANGED <<swVars, arVars, prVars, fiVars, coVars, plVars, hfVars, lfVars>>

\* one pass of "for iturns in range(nturns)": draw id, move that ball,
\* Nballs[iturns + 1] = np.sum(Place==0)
Turn ==
    /\ pc = "eh_turn"
    /\ \E id \in randint(0, 10) : Place' = Flip(Place, id)
    /\ Nballs' = CountBlue(Place')
    /\ iturns' = iturns + 1
    /\ pc' = IF iturns + 1 < nturns THEN "eh_turn" ELSE "eh_end"
    /\ UNCHANGED <<itest, H20, M>>
    /\ UNCHANGED <<swVars, arVars, prVars, fiVars, coVars, plVars, hfVars, lfVars>>

\* H20[itest] = np.sum(Place==0), and the outer loop steps on or ends
EndTest ==
    /\ pc = "eh_end"
    /\ H20' = [H20 EXCEPT ![itest + 1] = CountBlue(Place)]
    /\ itest' = itest + 1
    /\ pc' = IF itest + 1 < ntest THEN "eh_test" ELSE "eh_matrix"
    /\ UNCHANGED <<Place, iturns, Nballs, M>>
    /\ UNCHANGED <<swVars, arVars, prVars, fiVars, coVars, plVars, hfVars, lfVars>>

\* the cell that builds M
BuildM ==
    /\ pc = "eh_matrix"
    /\ M' = TransferMatrix(NB)
    /\ pc' = "eh_done"
    /\ UNCHANGED <<Place, itest, iturns, Nballs, H20>>
    /\ UNCHANGED <<swVars, arVars, prVars, fiVars, coVars, plVars, hfVars, lfVars>>

InitEhrenfest ==
    /\ pc = IF 0 < ntest THEN "eh_test" ELSE "eh_matrix"
    /\ InitEhrenfestVars
    /\ IdleStopwatchVars
    /\ IdleAcceptRejectVars
    /\ IdleProfileVars
    /\ IdleFisherVars
    /\ IdleCompanyVars
    /\ IdlePlotVars
    /\ IdleHistFitVars
    /\ IdleLinearFitVars

NextEhrenfest ==
    \/ StartTest
    \/ Turn
    \/ EndTest
    \/ BuildM

SpecEhrenfest == InitEhrenfest /\ [][NextEhrenfest]_vars

(***************************************************************************)
(* Ehrenfest: the claims.                                                  *)
(***************************************************************************)
\* ball id, and no other ball, changes basket in this step
MovesOnly(id) ==
    /\ Len(Place') = NB
    /\ Place'[id + 1] = 1 - Place[id + 1]
    /\ \A k \in 1..NB : k # id + 1 => Place'[k] = Place[k]

RowOf(A, a) == [k \in 1..(NB + 1) |-> A[a][k - 1]]

\* C15: once M is built, every entry is >= 0, every row sums to 1,
\* M[i,i-1] = i/NB for i >= 1, M[i,i+1] = (NB-i)/NB for i <= NB-1, and every
\* other entry, the diagonal included, is 0.
C15_TransferMatrixIsStochastic ==
    pc = "eh_done" =>
        /\ DOMAIN M = 0..NB
        /\ \A a \in 0..NB :
              /\ DOMAIN M[a] = 0..NB
              /\ RatEq(RatSum(RowOf(M, a)), <<1, 1>>)
              /\ \A b \in 0..NB :
                    /\ M[a][b][2] > 0
                    /\ M[a][b][1] >= 0
                    /\ (b = a - 1 => RatEq(M[a][b], <<a, NB>>))
                    /\ (b = a + 1 => RatEq(M[a][b], <<NB - a, NB>>))
                    /\ (b # a - 1 /\ b # a + 1 => M[a][b][1] = 0)

C15_Witness ==
    /\ pc = "eh_done"
    /\ RatEq(M[0][1], <<1, 1>>)
    /\ RatEq(M[NB][NB - 1], <<1, 1>>)
    /\ RatEq(M[3][2], <<3, 10>>)
    /\ RatEq(M[3][4], <<7, 10>>)

\* the matrix the cell builds for the NB balls of the simulation
MOfNB == TransferMatrix(NB)

\* the picks that take the simulation from the placement P to b blue balls
Choices(P, b) == {id \in randint(0, 10) : CountBlue(Flip(P, id)) = b}

\* the one-step probabilities of the simulation out of the placement P are
\* row CountBlue(P) of the matrix A
SameChain(P, A) ==
    LET a == CountBlue(P)
    IN  /\ Cardinality(randint(0, 10)) = NB
        /\ (a >= 1 => Cardinality(Choices(P, a - 1)) = a)
        /\ (a <= NB - 1 => Cardinality(Choices(P, a + 1)) = NB - a)
        /\ \A b \in 0..NB :
              RatEq(<<Cardinality(Choices(P, b)), Cardinality(randint(0, 10))>>,
                    A[a][b])

Nexp == 2         \* experiments explored (10 in the notebook)
MaxPoints == 3    \* largest Npoints explored (9 in the notebook)
MaxY == 3         \* largest y value explored

\* np.sum(a * b)
SumProd(a, b) == IntSum([k \in 1..Len(a) |-> a[k] * b[k]])

\* mutant: the two terms of the slope's numerator take each other's factor
SlopeSwapped(m, ax, axx, ay, axy, dl) == RatNorm(<<axy * ax - ay * m, dl>>)

\* (sumy * sumxx - sumxy * sumx) / Delta; a zero Delta leaves a zero
\* denominator (numpy gives nan or inf and goes on)
Intercept(m, ax, axx, ay, axy, dl) == RatNorm(<<ay * axx - axy * ax, dl>>)

\* (sumxy * sum - sumy * sumx) / Delta
Slope(m, ax, axx, ay, axy, dl) == RatNorm(<<axy * m - ay * ax, dl>>)

InitLinearFitVars ==
    /\ Npoints \in 1..MaxPoints
    /\ iexp = 0
    /\ lx = <<>>
    /\ ly = <<>>
    /\ sum = 0
    /\ sumx = 0
    /\ sumxx = 0
    /\ sumy = 0
    /\ sumxy = 0
    /\ Delta = 0
    /\ alpha0_calc = <<0, 1>>
    /\ alpha1_calc = <<0, 1>>

\* one pass of "for iexp in range(Nexp)": x = np.arange(Npoints)+1; y drawn;
\* the five sums; Delta; alpha0_calc; alpha1_calc
FitPass ==
    /\ pc = "lf_loop"
    /\ lx' = [k \in 1..Npoints |-> arange(0, Npoints)[k] + 1]
    /\ ly' \in [1..Npoints -> 0..MaxY]
    /\ sum' = Len(lx')
    /\ sumx' = IntSum(lx')
    /\ sumxx' = SumProd(lx', lx')
    /\ sumy' = IntSum(ly')
    /\ sumxy' = SumProd(lx', ly')
    /\ Delta' = sumxx' * sum' - sumx' * sumx'
    /\ alpha0_calc' = Intercept(sum', sumx', sumxx', sumy', sumxy', Delta')
    /\ alpha1_calc' = Slope(sum', sumx', sumxx', sumy', sumxy', Delta')
    /\ iexp' = iexp + 1
    /\ pc' = IF iexp + 1 < Nexp THEN "lf_loop" ELSE "lf_done"
    /\ UNCHANGED Npoints
    /\ UNCHANGED <<swVars, arVars, prVars, fiVars, coVars, plVars, hfVars, ehVars>>

InitLinearFit ==
    /\ pc = IF 0 < Nexp THEN "lf_loop" ELSE "lf_done"
    /\ InitLinearFitVars
    /\ IdleStopwatchVars
    /\ IdleAcceptRejectVars
    /\ IdleProfileVars
    /\ IdleFisherVars
    /\ IdleCompanyVars
    /\ IdlePlotVars
    /\ IdleHistFitVars
    /\ IdleEhrenfestVars

NextLinearFit == FitPass

SpecLinearFit == InitLinearFit /\ [][NextLinearFit]_vars

\* the data hold at least two distinct x values
TwoDistinctX == \E a \in 1..Len(lx), b \in 1..Len(lx) : lx[a] # lx[b]

\* a0 and a1 make both partial derivatives of the chi-square of the data
\* (lx, ly) vanish
SolvesNormalEquations(a0, a1) ==
    LET N == Len(lx)
        Sx == IntSum([k \in 1..N |-> lx[k]])
        Sxx == IntSum([k \in 1..N |-> lx[k] * lx[k]])
        Sy == IntSum([k \in 1..N |-> ly[k]])
        Sxy == IntSum([k \in 1..N |-> lx[k] * ly[k]])
    IN  /\ a0[2] # 0
        /\ a1[2] # 0
        /\ RatEq(RatAdd(RatScale(N, a0), RatScale(Sx, a1)), <<Sy, 1>>)
        /\ RatEq(RatAdd(RatScale(Sx, a0), RatScale(Sxx, a1)), <<Sxy, 1>>)

\* C17: after a pass over data with at least two distinct x values, Delta is
\* N*sumxx - sumx^2 and strictly positive, and alpha0_calc, alpha1_calc
\* satisfy N*alpha0 + sumx*alpha1 = sumy and sumx*alpha0 + sumxx*alpha1 =
\* sumxy.
C17_NormalEquationsSolved ==
    (iexp >= 1 /\ TwoDistinctX) =>
        /\ Delta = Len(lx) * SumProd(lx, lx) - IntSum(lx) * IntSum(lx)
        /\ Delta > 0
        /\ SolvesNormalEquations(alpha0_calc, alpha1_calc)

C17_Witness ==
    /\ iexp >= 1
    /\ Len(lx) = 3
    /\ TwoDistinctX
    /\ alpha0_calc[1] # 0
    /\ alpha1_calc[1] < 0
    /\ alpha1_calc[2] > 1

\* with a single point the two equations coincide, Delta is 0 and both
\* results are 0/0
OnePointHasNoFit ==
    (iexp >= 1 /\ Npoints = 1) =>
        /\ ~TwoDistinctX
        /\ Delta = 0
        /\ alpha0_calc = <<0, 0>>
        /\ alpha1_calc = <<0, 0>>

(***************************************************************************)
(* Accept/reject sampler under fair random draws.  The while loop has no   *)
(* bound of its own, so here the draws go on after N_try has reached       *)
(* MaxTry: from then on N_try and rejects stand for "MaxTry or more" and   *)
(* are no longer stepped.                                                  *)
(***************************************************************************)
\* one pass of "while True" once N_try has reached MaxTry: draw x_test,
\* y_test; break if accepted
TryBeyond ==
    /\ pc = "ar_loop"
    /\ N_try = MaxTry
    /\ \E x \in Uniform(xmin, xmax), y \in Uniform(ymin, ymax) :
          /\ x_test' = x
          /\ y_test' = y
          /\ pc' = IF Accept(x, y) THEN "ar_store" ELSE "ar_loop"
    /\ UNCHANGED <<i, N_try, rejects, x_accepted, stores>>
    /\ UNCHANGED <<swVars, prVars, fiVars, coVars, plVars, hfVars, ehVars, lfVars>>

NextAcceptRejectFair ==
    \/ Try
    \/ TryBeyond
    \/ Store

\* a pass of the while loop whose pair is accepted
AcceptingDraw == (Try \/ TryBeyond) /\ pc' = "ar_store"

\* the script keeps running (the store after the break is carried out), and
\* the random draws are fair: an accepting pair is not withheld for ever
SpecAcceptRejectFair ==
    /\ InitAcceptReject
    /\ [][NextAcceptRejectFair]_vars
    /\ WF_vars(Store)
    /\ WF_vars(AcceptingDraw)

\* C19: under fair draws the reject-until-accept loop of every slot ends
\* with that slot filled, and the generation ends with all N_points slots
\* filled.
C19_GenerationCompletes ==
    /\ (pc = "ar_loop") ~> (pc = "ar_store")
    /\ <>(pc = "ar_done" /\ i = N_points /\ Len(stores) = N_points)

C19_Witness ==
    /\ pc = "ar_done"
    /\ i = N_points
    /\ N_try = MaxTry
    /\ rejects = MaxTry - 1
    /\ Len(stores) = N_points

(***************************************************************************)
(* Any one of the notebooks, run on its own.                               *)
(***************************************************************************)
Init ==
    \/ InitStopwatch
    \/ InitAcceptReject
    \/ InitProfile
    \/ InitFisher
    \/ InitCompanySize
    \/ InitAcceptRejectPlots
    \/ InitCalibration
    \/ InitHistFits
    \/ InitEhrenfest
    \/ InitLinearFit

Next ==
    \/ NextStopwatch
    \/ NextAcceptReject
    \/ NextProfile
    \/ NextFisher
    \/ NextCompanySize
    \/ DrawTransformationPlot
    \/ DrawAcceptRejectPlot
    \/ ResolutionCell
    \/ NextHistFits
    \/ NextEhrenfest
    \/ NextLinearFit

Spec == Init /\ [][Next]_vars

=============================================================================
